---- MODULE Spec2Model ----
(***************************************************************************)
(* Model of conrod's GlobalInput (src/events/global_input.rs): the global  *)
(* input aggregator that logs every UiEvent of an update cycle, keeps the  *)
(* start/current InputState snapshots and interprets raw mouse events into *)
(* MouseClick, MouseDrag and Scroll events.                                *)
(*                                                                         *)
(* Scalars: pointer coordinates, scroll deltas and the drag threshold are  *)
(* integers.  distance_between yields a square root; it is represented by  *)
(* its radicand, and the comparison `sqrt(n) > t` of is_drag is computed   *)
(* exactly by SqrtGreater.                                                 *)
(*                                                                         *)
(* Three specifications run the same program: Spec, SpecTracked, which     *)
(* also records the pointer motion since each press, and SpecCounted,      *)
(* which also counts presses against clicks and finished drags.            *)
(***************************************************************************)
EXTENDS Integers, Sequences, FiniteSets, TLC

\* ---------------------------------------------------------------- bounds
\* Pointer coordinates range over 0..MaxCoord on both axes.
MaxCoord == 1
\* At most MaxPush host calls of push_event between two resets.
MaxPush == 2
\* The count of presses not yet answered by a click or a finished drag is
\* kept up to MaxCredit per button; further presses leave it there.
MaxCredit == 1

\* ---------------------------------------------------------- value domains
Coords == 0 .. MaxCoord
Points == Coords \X Coords
\* drag_threshold values: the spec asks for >= 0, `new` accepts any Scalar.
Thresholds == {-1, 0, 1}
\* input::MouseButton, in enumeration order (a closed enumeration; two of
\* its members are enough to have several buttons down at once).
ButtonOrder == <<"Left", "Right">>
MouseButton == {ButtonOrder[i] : i \in 1 .. Len(ButtonOrder)}
ModifierKeys == {"Shift"}
WidgetIndices == {1}
ScrollDeltas == {<<0, 1>>, <<1, 0>>}

\* Option<T>: None is the empty sequence, Some(v) the sequence <<v>>.
None == <<>>
Some(v) == <<v>>

\* ------------------------------------------------------------- UiEvent
RawPress(b) == [kind |-> "Raw", input |-> "Press", dev |-> "Mouse", button |-> b]
RawRelease(b) == [kind |-> "Raw", input |-> "Release", dev |-> "Mouse", button |-> b]
RawKeyPress(k) == [kind |-> "Raw", input |-> "Press", dev |-> "Keyboard", key |-> k]
RawKeyRelease(k) == [kind |-> "Raw", input |-> "Release", dev |-> "Keyboard", key |-> k]
RawMove(p) == [kind |-> "Raw", input |-> "Move", motion |-> "MouseRelative", x |-> p[1], y |-> p[2]]
RawScroll(d) == [kind |-> "Raw", input |-> "Move", motion |-> "MouseScroll", x |-> d[1], y |-> d[2]]
WidgetCapturesMouse(i) == [kind |-> "WidgetCapturesMouse", idx |-> i]
WidgetUncapturesMouse(i) == [kind |-> "WidgetUncapturesMouse", idx |-> i]
WidgetCapturesKeyboard(i) == [kind |-> "WidgetCapturesKeyboard", idx |-> i]
WidgetUncapturesKeyboard(i) == [kind |-> "WidgetUncapturesKeyboard", idx |-> i]

MouseClick(b, loc, m) == [kind |-> "MouseClick", button |-> b, location |-> loc, modifier |-> m]
MouseDrag(b, s, e, ip, m) ==
    [kind |-> "MouseDrag", button |-> b, start |-> s, end |-> e, in_progress |-> ip, modifier |-> m]
Scroll(x, y, m) == [kind |-> "Scroll", x |-> x, y |-> y, modifiers |-> m]

\* The raw events the windowing layer produces.
RawEvents ==
    {RawPress(b) : b \in MouseButton} \cup {RawRelease(b) : b \in MouseButton}
    \cup {RawMove(p) : p \in Points} \cup {RawScroll(d) : d \in ScrollDeltas}
    \cup {RawKeyPress(k) : k \in ModifierKeys} \cup {RawKeyRelease(k) : k \in ModifierKeys}
\* Toolkit-level events the Ui passes through push_event as well.
CaptureEvents ==
    {WidgetCapturesMouse(i) : i \in WidgetIndices} \cup {WidgetUncapturesMouse(i) : i \in WidgetIndices}
HostEvents == RawEvents \cup CaptureEvents

\* ----------------------------------------------------------- InputState
\* InputState::new(): pointer at the origin, no button down, no modifiers,
\* no capturing widget.
InputStateNew ==
    [mouse_position |-> <<0, 0>>,
     mouse_buttons |-> [b \in MouseButton |-> None],
     modifiers |-> {},
     widget_capturing_mouse |-> None,
     widget_capturing_keyboard |-> None]

\* MouseButtonState::get: the button's down-location, if it is down.
ButtonGet(mouse_buttons, button) == mouse_buttons[button]

\* MouseButtonState::pressed_button: the first button that is down, in
\* enumeration order, with its down-location.
PressedButton(mouse_buttons) ==
    LET down == {i \in 1 .. Len(ButtonOrder) : mouse_buttons[ButtonOrder[i]] # None}
    IN IF down = {} THEN None
       ELSE LET first == CHOOSE i \in down : \A j \in down : i <= j
            IN Some(<<ButtonOrder[first], mouse_buttons[ButtonOrder[first]][1]>>)

\* InputState::update
InputStateUpdate(state, event) ==
    IF event.kind = "Raw" THEN
        IF event.input = "Press" /\ event.dev = "Mouse"
        THEN [state EXCEPT !.mouse_buttons[event.button] = Some(state.mouse_position)]
        ELSE IF event.input = "Release" /\ event.dev = "Mouse"
        THEN [state EXCEPT !.mouse_buttons[event.button] = None]
        ELSE IF event.input = "Move" /\ event.motion = "MouseRelative"
        THEN [state EXCEPT !.mouse_position = <<event.x, event.y>>]
        ELSE IF event.input = "Press" /\ event.dev = "Keyboard"
        THEN [state EXCEPT !.modifiers = @ \cup {event.key}]
        ELSE IF event.input = "Release" /\ event.dev = "Keyboard"
        THEN [state EXCEPT !.modifiers = @ \ {event.key}]
        ELSE state
    ELSE IF event.kind = "WidgetCapturesMouse"
    THEN [state EXCEPT !.widget_capturing_mouse = Some(event.idx)]
    ELSE IF event.kind = "WidgetUncapturesMouse"
    THEN [state EXCEPT !.widget_capturing_mouse = None]
    ELSE IF event.kind = "WidgetCapturesKeyboard"
    THEN [state EXCEPT !.widget_capturing_keyboard = Some(event.idx)]
    ELSE IF event.kind = "WidgetUncapturesKeyboard"
    THEN [state EXCEPT !.widget_capturing_keyboard = None]
    ELSE state

\* ---------------------------------------------------------- GlobalInput
VARIABLES
    start_state,      \* InputState at the end of the last update cycle
    current_state,    \* the most recent InputState
    events,           \* Vec<UiEvent>: the log of this cycle
    drag_threshold,   \* Scalar, fixed by new()
    \* history of the run, not part of the program state:
    origin,           \* origin[i]: <<host call number, recursion depth>> of the push that appended events[i]
    pushed,           \* the events the host passed to push_event since the last reset
    hist,             \* what the host has sent: where the pointer is, where each held button went down
    track,            \* per held button: has the pointer been moved near / far from its down-location
    credit,           \* per button: presses pushed minus clicks and finished drags synthesized
    call,             \* the last host call
    pre               \* current_state and hist right before the last host call, the call before it,
                      \* and the track of the button the last call released

vars == <<start_state, current_state, events, drag_threshold, origin, pushed, hist, track, credit,
          call, pre>>

\* distance_between(a, b) = sqrt(|dx^2 + dy^2|): the radicand of that root.
Abs(n) == IF n < 0 THEN -n ELSE n
distance_between(a, b) ==
    LET dx_2 == (a[1] - b[1]) * (a[1] - b[1])
        dy_2 == (a[2] - b[2]) * (a[2] - b[2])
    IN Abs(dx_2 + dy_2)

\* sqrt(n) > t for a radicand n >= 0.
SqrtGreater(n, t) == t < 0 \/ n > t * t

\* is_drag with `>=` for `>`.
is_drag_inclusive(self, a, b) ==
    self.drag_threshold < 0
    \/ distance_between(a, b) >= self.drag_threshold * self.drag_threshold

is_drag(self, a, b) == SqrtGreater(distance_between(a, b), self.drag_threshold)

\* mouse_scroll with the two deltas exchanged.
mouse_scroll_swapped(self, x, y) == Some(Scroll(y, x, self.current_state.modifiers))

mouse_scroll(self, x, y) == Some(Scroll(x, y, self.current_state.modifiers))

\* handle_mouse_move anchoring the drag at the pointer position before the move.
handle_mouse_move_from_pointer(self, move_to) ==
    LET pressed == PressedButton(self.current_state.mouse_buttons)
    IN IF pressed = None THEN None
       ELSE LET btn_and_point == pressed[1]
            IN IF is_drag(self, btn_and_point[2], move_to)
               THEN Some(MouseDrag(btn_and_point[1], self.current_state.mouse_position, move_to,
                                   TRUE, self.current_state.modifiers))
               ELSE None

\* handle_mouse_move looking for any held button beyond the threshold
\* instead of asking pressed_button.
handle_mouse_move_any_button(self, move_to) ==
    LET far == {i \in 1 .. Len(ButtonOrder) :
                    /\ self.current_state.mouse_buttons[ButtonOrder[i]] # None
                    /\ is_drag(self, self.current_state.mouse_buttons[ButtonOrder[i]][1], move_to)}
    IN IF far = {} THEN None
       ELSE LET first == CHOOSE i \in far : \A j \in far : i <= j
                button == ButtonOrder[first]
            IN Some(MouseDrag(button, self.current_state.mouse_buttons[button][1], move_to, TRUE,
                              self.current_state.modifiers))

\* handle_mouse_move without the threshold test.
handle_mouse_move_always(self, move_to) ==
    LET pressed == PressedButton(self.current_state.mouse_buttons)
    IN IF pressed = None THEN None
       ELSE LET btn_and_point == pressed[1]
            IN Some(MouseDrag(btn_and_point[1], btn_and_point[2], move_to, TRUE,
                              self.current_state.modifiers))

handle_mouse_move(self, move_to) ==
    LET pressed == PressedButton(self.current_state.mouse_buttons)
    IN IF pressed = None THEN None
       ELSE LET btn_and_point == pressed[1]
            IN IF is_drag(self, btn_and_point[2], move_to)
               THEN Some(MouseDrag(btn_and_point[1], btn_and_point[2], move_to, TRUE,
                                   self.current_state.modifiers))
               ELSE None

\* handle_mouse_release with the two ends of the drag exchanged.
handle_mouse_release_swapped(self, button) ==
    LET got == ButtonGet(self.current_state.mouse_buttons, button)
    IN IF got = None THEN None
       ELSE LET point == got[1]
            IN IF is_drag(self, point, self.current_state.mouse_position)
               THEN Some(MouseDrag(button, self.current_state.mouse_position, point, FALSE,
                                   self.current_state.modifiers))
               ELSE Some(MouseClick(button, point, self.current_state.modifiers))

\* handle_mouse_release falling back to the pointer position for a button
\* that has no down-location.
handle_mouse_release_or_pointer(self, button) ==
    LET got == ButtonGet(self.current_state.mouse_buttons, button)
        point == IF got = None THEN self.current_state.mouse_position ELSE got[1]
    IN IF is_drag(self, point, self.current_state.mouse_position)
       THEN Some(MouseDrag(button, point, self.current_state.mouse_position, FALSE,
                           self.current_state.modifiers))
       ELSE Some(MouseClick(button, point, self.current_state.modifiers))

\* handle_mouse_release with its two branches exchanged.
handle_mouse_release_inverted(self, button) ==
    LET got == ButtonGet(self.current_state.mouse_buttons, button)
    IN IF got = None THEN None
       ELSE LET point == got[1]
            IN IF is_drag(self, point, self.current_state.mouse_position)
               THEN Some(MouseClick(button, point, self.current_state.modifiers))
               ELSE Some(MouseDrag(button, point, self.current_state.mouse_position, FALSE,
                                   self.current_state.modifiers))

\* handle_mouse_release taking any displacement for a drag.
handle_mouse_release_any_motion(self, button) ==
    LET got == ButtonGet(self.current_state.mouse_buttons, button)
    IN IF got = None THEN None
       ELSE LET point == got[1]
            IN IF point # self.current_state.mouse_position
               THEN Some(MouseDrag(button, point, self.current_state.mouse_position, FALSE,
                                   self.current_state.modifiers))
               ELSE Some(MouseClick(button, point, self.current_state.modifiers))

handle_mouse_release(self, button) ==
    LET got == ButtonGet(self.current_state.mouse_buttons, button)
    IN IF got = None THEN None
       ELSE LET point == got[1]
            IN IF is_drag(self, point, self.current_state.mouse_position)
               THEN Some(MouseDrag(button, point, self.current_state.mouse_position, FALSE,
                                   self.current_state.modifiers))
               ELSE Some(MouseClick(button, point, self.current_state.modifiers))

\* The match of push_event with one more arm: a finished drag is a click too.
interpret_drag_clicks(self, event) ==
    IF event.kind = "MouseDrag"
    THEN IF event.in_progress THEN None
         ELSE Some(MouseClick(event.button, event.end, event.modifier))
    ELSE IF event.kind # "Raw" THEN None
    ELSE IF event.input = "Release" /\ event.dev = "Mouse"
    THEN handle_mouse_release(self, event.button)
    ELSE IF event.input = "Move" /\ event.motion = "MouseRelative"
    THEN handle_mouse_move(self, <<event.x, event.y>>)
    ELSE IF event.input = "Move" /\ event.motion = "MouseScroll"
    THEN mouse_scroll(self, event.x, event.y)
    ELSE None

\* The match of push_event: the event a raw event is interpreted into.
interpret(self, event) ==
    IF event.kind # "Raw" THEN None
    ELSE IF event.input = "Release" /\ event.dev = "Mouse"
    THEN handle_mouse_release(self, event.button)
    ELSE IF event.input = "Move" /\ event.motion = "MouseRelative"
    THEN handle_mouse_move(self, <<event.x, event.y>>)
    ELSE IF event.input = "Move" /\ event.motion = "MouseScroll"
    THEN mouse_scroll(self, event.x, event.y)
    ELSE None

\* push_event, with its recursive self-call.  self is the GlobalInput; n and
\* depth tag the log entry with the host call and the recursion depth that
\* appended it (self.origin, kept next to self.events).
RECURSIVE push_event(_, _, _, _)
\* push_event logging the event only after its self-call has returned.
push_event_log_last(self, event, n, depth) ==
    LET maybe_new_event == interpret(self, event)
        updated == [self EXCEPT !.current_state = InputStateUpdate(@, event)]
        fed == IF maybe_new_event # None
               THEN push_event(updated, maybe_new_event[1], n, depth + 1)
               ELSE updated
    IN [fed EXCEPT !.events = Append(@, event), !.origin = Append(@, <<n, depth>>)]

\* push_event logging the event only when nothing was synthesized from it.
push_event_log_else(self, event, n, depth) ==
    LET maybe_new_event == interpret(self, event)
        updated == [self EXCEPT !.current_state = InputStateUpdate(@, event)]
    IN IF maybe_new_event # None
       THEN push_event(updated, maybe_new_event[1], n, depth + 1)
       ELSE [updated EXCEPT !.events = Append(@, event), !.origin = Append(@, <<n, depth>>)]

\* push_event applying the event to both snapshots.
push_event_both_states(self, event, n, depth) ==
    LET maybe_new_event == interpret(self, event)
        updated == [self EXCEPT !.current_state = InputStateUpdate(@, event),
                                !.start_state = InputStateUpdate(@, event),
                                !.events = Append(@, event),
                                !.origin = Append(@, <<n, depth>>)]
    IN IF maybe_new_event # None
       THEN push_event(updated, maybe_new_event[1], n, depth + 1)
       ELSE updated

\* push_event updating current_state before the match.
push_event_update_first(self, event, n, depth) ==
    LET applied == [self EXCEPT !.current_state = InputStateUpdate(@, event)]
        maybe_new_event == interpret(applied, event)
        updated == [applied EXCEPT !.events = Append(@, event),
                                   !.origin = Append(@, <<n, depth>>)]
    IN IF maybe_new_event # None
       THEN push_event(updated, maybe_new_event[1], n, depth + 1)
       ELSE updated

\* push_event updating current_state only when nothing was synthesized.
push_event_update_else(self, event, n, depth) ==
    LET maybe_new_event == interpret(self, event)
        logged == [self EXCEPT !.events = Append(@, event),
                               !.origin = Append(@, <<n, depth>>)]
    IN IF maybe_new_event # None
       THEN push_event(logged, maybe_new_event[1], n, depth + 1)
       ELSE [logged EXCEPT !.current_state = InputStateUpdate(@, event)]

\* push_event logging the synthesized event itself and feeding it back too.
push_event_log_twice(self, event, n, depth) ==
    LET maybe_new_event == interpret(self, event)
        updated == [self EXCEPT !.current_state = InputStateUpdate(@, event),
                                !.events = Append(@, event),
                                !.origin = Append(@, <<n, depth>>)]
    IN IF maybe_new_event # None
       THEN push_event([updated EXCEPT !.events = Append(@, maybe_new_event[1]),
                                       !.origin = Append(@, <<n, depth + 1>>)],
                       maybe_new_event[1], n, depth + 1)
       ELSE updated

\* push_event feeding the synthesized event back twice.
push_event_feed_twice(self, event, n, depth) ==
    LET maybe_new_event == interpret(self, event)
        updated == [self EXCEPT !.current_state = InputStateUpdate(@, event),
                                !.events = Append(@, event),
                                !.origin = Append(@, <<n, depth>>)]
    IN IF maybe_new_event # None
       THEN push_event(push_event(updated, maybe_new_event[1], n, depth + 1),
                       maybe_new_event[1], n, depth + 1)
       ELSE updated

push_event(self, event, n, depth) ==
    LET maybe_new_event == interpret(self, event)
        updated == [self EXCEPT !.current_state = InputStateUpdate(@, event),
                                !.events = Append(@, event),
                                !.origin = Append(@, <<n, depth>>)]
    IN IF maybe_new_event # None
       THEN push_event(updated, maybe_new_event[1], n, depth + 1)
       ELSE updated

\* reset copying the snapshot the wrong way round.
reset_backwards(self) ==
    [self EXCEPT !.events = <<>>, !.origin = <<>>, !.current_state = self.start_state]

\* reset that leaves the log alone.
reset_keep_log(self) == [self EXCEPT !.start_state = self.current_state]

\* reset
reset(self) ==
    [self EXCEPT !.events = <<>>, !.origin = <<>>, !.start_state = self.current_state]

\* mouse_position and mouse_button_down of the InputProvider implementation.
mouse_position == current_state.mouse_position
\* mouse_button_down returning the recorded down-location.
mouse_button_down_location(button) == ButtonGet(current_state.mouse_buttons, button)

mouse_button_down(button) ==
    IF ButtonGet(current_state.mouse_buttons, button) = None THEN None
    ELSE Some(mouse_position)

GlobalInput ==
    [start_state |-> start_state, current_state |-> current_state, events |-> events,
     drag_threshold |-> drag_threshold, origin |-> origin]

Snapshot(op, motion) ==
    [current_state |-> current_state, op |-> op, pointer |-> hist.pointer, held |-> hist.held,
     motion |-> motion]

\* What the host's event says about the pointer and the buttons.
Observe(h, event) ==
    IF event.kind # "Raw" THEN h
    ELSE IF event.input = "Press" /\ event.dev = "Mouse"
    THEN [h EXCEPT !.held[event.button] = Some(h.pointer)]
    ELSE IF event.input = "Release" /\ event.dev = "Mouse"
    THEN [h EXCEPT !.held[event.button] = None]
    ELSE IF event.input = "Move" /\ event.motion = "MouseRelative"
    THEN [h EXCEPT !.pointer = <<event.x, event.y>>]
    ELSE h

\* Euclidean distance against a threshold t, on squares.
SquaredDistance(p, q) == (p[1] - q[1]) * (p[1] - q[1]) + (p[2] - q[2]) * (p[2] - q[2])
DistanceAtMost(p, q, t) == t >= 0 /\ SquaredDistance(p, q) <= t * t
DistanceAbove(p, q, t) == ~DistanceAtMost(p, q, t)

\* What the host's event says about the motion since each button went down:
\* near, the pointer was moved off the down-location but within the
\* threshold of it; far, it was moved beyond the threshold.
Untracked == [near |-> FALSE, far |-> FALSE]
Follow(tr, h, event, t) ==
    IF event.kind # "Raw" THEN tr
    ELSE IF event.input \in {"Press", "Release"} /\ event.dev = "Mouse"
    THEN [tr EXCEPT ![event.button] = Untracked]
    ELSE IF event.input = "Move" /\ event.motion = "MouseRelative"
    THEN [b \in MouseButton |->
            IF h.held[b] = None THEN tr[b]
            ELSE LET p == h.held[b][1]
                     q == <<event.x, event.y>>
                 IN [near |-> tr[b].near \/ (q # p /\ DistanceAtMost(p, q, t)),
                     far |-> tr[b].far \/ DistanceAbove(p, q, t)]]
    ELSE tr

\* A click or a finished drag of button b.
IsCompletion(e, b) ==
    \/ e.kind = "MouseClick" /\ e.button = b
    \/ e.kind = "MouseDrag" /\ e.button = b /\ ~e.in_progress

\* The credit after the host pushed event and the log grew by added.
Account(cr, event, added) ==
    [b \in MouseButton |->
        LET pressed == IF event = RawPress(b) /\ cr[b] < MaxCredit THEN 1 ELSE 0
            completed == Cardinality({k \in DOMAIN added : IsCompletion(added[k], b)})
        IN cr[b] + pressed - completed]

\* GlobalInput::new(drag_threshold)
Init ==
    /\ drag_threshold \in Thresholds
    /\ start_state = InputStateNew
    /\ current_state = InputStateNew
    /\ events = <<>>
    /\ origin = <<>>
    /\ pushed = <<>>
    /\ hist = [pointer |-> <<0, 0>>, held |-> [b \in MouseButton |-> None]]
    /\ call = [op |-> "new"]
    /\ track = [b \in MouseButton |-> Untracked]
    /\ credit = [b \in MouseButton |-> 0]
    /\ pre = [current_state |-> InputStateNew, op |-> "none",
              pointer |-> <<0, 0>>, held |-> [b \in MouseButton |-> None],
              motion |-> Untracked]

\* push_event(event) applied to the GlobalInput, and what the run records of it.
Push(event) ==
    LET after == push_event(GlobalInput, event, Len(pushed) + 1, 0)
    IN /\ start_state' = after.start_state
       /\ current_state' = after.current_state
       /\ events' = after.events
       /\ drag_threshold' = after.drag_threshold
       /\ origin' = after.origin
       /\ pushed' = Append(pushed, event)
       /\ hist' = Observe(hist, event)
       /\ call' = [op |-> "push_event", event |-> event]
       /\ pre' = Snapshot(call.op, IF event.kind = "Raw" /\ event.input = "Release"
                                        /\ event.dev = "Mouse"
                                     THEN track[event.button] ELSE Untracked)

\* The host calls push_event(event).
PushEvent ==
    /\ Len(pushed) < MaxPush
    /\ \E event \in HostEvents : Push(event)
    /\ UNCHANGED <<track, credit>>

\* The same call, the run also recording the motion since each press.
PushEventTracked ==
    /\ Len(pushed) < MaxPush
    /\ \E event \in HostEvents :
        /\ Push(event)
        /\ track' = Follow(track, hist, event, drag_threshold)
    /\ UNCHANGED credit

\* The same call, the run also counting presses against clicks and finished drags.
PushEventCounted ==
    /\ Len(pushed) < MaxPush
    /\ \E event \in HostEvents :
        /\ Push(event)
        /\ credit' = Account(credit, event, SubSeq(events', Len(events) + 1, Len(events')))
    /\ UNCHANGED track

\* The host calls reset().
Reset ==
    /\ LET after == reset(GlobalInput)
       IN /\ start_state' = after.start_state
          /\ current_state' = after.current_state
          /\ events' = after.events
          /\ drag_threshold' = after.drag_threshold
          /\ origin' = after.origin
    /\ pushed' = <<>>
    /\ call' = [op |-> "reset"]
    /\ pre' = Snapshot(call.op, Untracked)
    /\ UNCHANGED <<hist, track, credit>>

Next == PushEvent \/ Reset

Spec == Init /\ [][Next]_vars

NextTracked == PushEventTracked \/ Reset

SpecTracked == Init /\ [][NextTracked]_vars

NextCounted == PushEventCounted \/ Reset

SpecCounted == Init /\ [][NextCounted]_vars

\* ------------------------------------------------------------ properties
\* The log entries the last host call of push_event appended.
CallIdx == {i \in DOMAIN events : origin[i][1] = Len(pushed)}
Appended ==
    IF CallIdx = {} THEN <<>>
    ELSE SubSeq(events, CHOOSE i \in CallIdx : \A j \in CallIdx : i <= j, Len(events))
Pushed(event) == call.op = "push_event" /\ call.event = event

\* Button b was down, pressed at p, and the host released it with the pointer at q.
Released(b, p, q) ==
    /\ Pushed(RawRelease(b))
    /\ pre.held[b] = Some(p)
    /\ pre.pointer = q

\* C1: a release of button b, pressed at p, with the pointer at q and
\* distance(p, q) <= threshold (threshold >= 0, p = q included) appends the
\* raw release and exactly one synthesized event, MouseClick{button: b,
\* location: p}, and no MouseDrag.
C1_ReleaseWithinThresholdClicks ==
    \A b \in MouseButton : \A p, q \in Points :
        Released(b, p, q) /\ DistanceAtMost(p, q, drag_threshold)
        => /\ Len(Appended) = 2
           /\ Appended[1] = RawRelease(b)
           /\ Appended[2].kind = "MouseClick"
           /\ Appended[2].button = b
           /\ Appended[2].location = p

C1_Witness ==
    \E b \in MouseButton : \E p, q \in Points :
        /\ Released(b, p, q)
        /\ p # q
        /\ DistanceAtMost(p, q, drag_threshold)
        /\ Appended[2].kind = "MouseClick"

\* C2: a release of button b, pressed at p, with the pointer at q and
\* distance(p, q) > threshold appends the raw release and exactly one
\* synthesized event, MouseDrag{button: b, start: p, end: q, in_progress:
\* false}, and no MouseClick.
C2_ReleaseBeyondThresholdDrags ==
    \A b \in MouseButton : \A p, q \in Points :
        Released(b, p, q) /\ DistanceAbove(p, q, drag_threshold)
        => /\ Len(Appended) = 2
           /\ Appended[1] = RawRelease(b)
           /\ Appended[2].kind = "MouseDrag"
           /\ Appended[2].button = b
           /\ Appended[2].start = p
           /\ Appended[2].end = q
           /\ Appended[2].in_progress = FALSE

C2_Witness ==
    \E b \in MouseButton : \E p, q \in Points :
        /\ Released(b, p, q)
        /\ p # q
        /\ drag_threshold >= 0
        /\ DistanceAbove(p, q, drag_threshold)
        /\ Appended[2].kind = "MouseDrag"

\* Button b, pressed at p, was the only button down and the host moved the
\* pointer to r.
MovedWhileHeld(b, p, r) ==
    /\ Pushed(RawMove(r))
    /\ pre.held[b] = Some(p)
    /\ \A o \in MouseButton \ {b} : pre.held[o] = None

\* C3: while a single button b stays down after a press at p, a pointer
\* move to r with distance(p, r) > threshold appends the raw move and
\* exactly one MouseDrag{in_progress: true, button: b, start: p, end: r};
\* start is the press location p whatever the pointer position before the
\* move was.
C3_MoveDragAnchorsAtPress ==
    \A b \in MouseButton : \A p, r \in Points :
        MovedWhileHeld(b, p, r) /\ DistanceAbove(p, r, drag_threshold)
        => /\ Len(Appended) = 2
           /\ Appended[1] = RawMove(r)
           /\ Appended[2].kind = "MouseDrag"
           /\ Appended[2].button = b
           /\ Appended[2].start = p
           /\ Appended[2].end = r
           /\ Appended[2].in_progress = TRUE

\* a second move beyond the threshold, the first one having left the
\* pointer away from the press location
C3_Witness ==
    \E b \in MouseButton : \E p, r \in Points :
        /\ MovedWhileHeld(b, p, r)
        /\ DistanceAbove(p, r, drag_threshold)
        /\ pre.pointer # p
        /\ pre.pointer # r
        /\ DistanceAbove(p, pre.pointer, drag_threshold)
        /\ Appended[2].start = p

\* C4: a raw scroll with delta (x, y) appends the raw event and exactly one
\* Scroll{x, y} whose modifiers are current_state.modifiers at the moment
\* of the scroll, for every threshold and every button and pointer state.
C4_ScrollSynthesized ==
    \A d \in ScrollDeltas :
        Pushed(RawScroll(d))
        => /\ Len(Appended) = 2
           /\ Appended[1] = RawScroll(d)
           /\ Appended[2] = Scroll(d[1], d[2], pre.current_state.modifiers)

C4_Witness ==
    \E d \in ScrollDeltas :
        /\ Pushed(RawScroll(d))
        /\ pre.current_state.modifiers # {}
        /\ \E b \in MouseButton : pre.held[b] # None
        /\ Appended[2].kind = "Scroll"

IsRaw(e) == e.kind = "Raw"
IsSynthesized(e) == e.kind \in {"MouseClick", "MouseDrag", "Scroll"}

\* raw is the raw event that ev is the interpretation of.
Causes(raw, ev) ==
    IF ev.kind = "Scroll" THEN raw = RawScroll(<<ev.x, ev.y>>)
    ELSE IF ev.kind = "MouseClick" THEN raw = RawRelease(ev.button)
    ELSE IF ev.in_progress THEN raw = RawMove(ev.end)
    ELSE raw = RawRelease(ev.button)

\* C5: every synthesized entry of the log (MouseClick, MouseDrag, Scroll)
\* sits immediately after the raw event that caused it, appended by the
\* same host call; it never comes first and never precedes its raw event.
C5_SynthesizedFollowsItsRaw ==
    \A i \in DOMAIN events :
        IsSynthesized(events[i])
        => /\ i > 1
           /\ Causes(events[i - 1], events[i])
           /\ origin[i - 1] = <<origin[i][1], 0>>
           /\ origin[i][2] = 1

C5_Witness ==
    /\ Len(events) = 4
    /\ IsRaw(events[1]) /\ events[2].kind = "MouseDrag"
    /\ IsRaw(events[3]) /\ events[4].kind = "MouseClick"
    /\ origin[2][1] = 1
    /\ origin[4][1] = 2

RawOnly(seq) == SelectSeq(seq, IsRaw)

\* C6: the raw entries of the log are the raw events the host pushed since
\* the last reset, in arrival order; each call adds at most one synthesized
\* entry; after N calls with raw events the length L has N <= L <= 2N.
C6_LogLength ==
    /\ RawOnly(events) = RawOnly(pushed)
    /\ \A n \in 1 .. Len(pushed) :
        Cardinality({i \in DOMAIN events : origin[i][1] = n /\ IsSynthesized(events[i])}) <= 1
    /\ (\A n \in DOMAIN pushed : IsRaw(pushed[n]))
        => /\ Len(pushed) <= Len(events)
           /\ Len(events) <= 2 * Len(pushed)

C6_Witness ==
    /\ Len(pushed) = 2
    /\ \A n \in DOMAIN pushed : IsRaw(pushed[n])
    /\ Len(events) = 3
    /\ IsSynthesized(events[2])

\* C7: after reset(), start_state is the value current_state had right
\* before the call, current_state is unchanged and the log is empty; a
\* push_event after the reset that changes current_state leaves
\* start_state at that value.
C7_ResetSnapshots ==
    /\ call.op = "reset"
        => /\ start_state = pre.current_state
           /\ current_state = pre.current_state
           /\ events = <<>>
    /\ call.op = "push_event" /\ pre.op = "reset"
        => start_state = pre.current_state

C7_Witness ==
    /\ call.op = "push_event"
    /\ pre.op = "reset"
    /\ start_state = pre.current_state
    /\ start_state # InputStateNew
    /\ current_state # start_state

\* C8: a reset() right after a reset() leaves start_state, current_state
\* and the log as the first one left them, and the log is empty after each
\* of the two.
C8_ResetIdempotent ==
    [][call.op = "reset" /\ call'.op = "reset"
        => /\ events = <<>>
           /\ events' = <<>>
           /\ current_state' = current_state
           /\ start_state' = start_state]_vars

C8_Witness ==
    /\ call.op = "reset"
    /\ pre.op = "reset"
    /\ current_state # InputStateNew
    /\ start_state = current_state
    /\ events = <<>>

\* C9: push_event, self-call included, leaves start_state as it is; only
\* reset() changes start_state.
C9_PushKeepsStartState ==
    [][start_state' # start_state => call'.op = "reset"]_vars

\* a second push_event of the cycle that synthesized an event and changed
\* current_state
C9_Witness ==
    /\ call.op = "push_event"
    /\ pre.op = "push_event"
    /\ Len(Appended) = 2
    /\ current_state # pre.current_state
    /\ start_state # InputStateNew
    /\ start_state # current_state

\* C10: mouse_button_down(b) is the current pointer position when b has an
\* entry in current_state.mouse_buttons and none when it has no entry;
\* after a press and a move to q it is q, not the down-location.
C10_ButtonDownIsPointer ==
    \A b \in MouseButton :
        /\ current_state.mouse_buttons[b] # None
            => mouse_button_down(b) = Some(current_state.mouse_position)
        /\ current_state.mouse_buttons[b] = None
            => mouse_button_down(b) = None
        /\ \A q \in Points :
            Pushed(RawMove(q)) /\ pre.held[b] # None => mouse_button_down(b) = Some(q)

C10_Witness ==
    \E b \in MouseButton : \E p, q \in Points :
        /\ Pushed(RawMove(q))
        /\ pre.held[b] = Some(p)
        /\ p # q
        /\ mouse_button_down(b) = Some(q)
        /\ \E o \in MouseButton : mouse_button_down(o) = None

\* C11: a release of a button that has no down-location in current_state
\* appends the raw release and nothing else (no MouseClick, no MouseDrag)
\* and leaves the button map, and the rest of current_state, as it was.
C11_UnmatchedReleaseAbsorbed ==
    \A b \in MouseButton :
        Pushed(RawRelease(b)) /\ pre.current_state.mouse_buttons[b] = None
        => /\ Appended = <<RawRelease(b)>>
           /\ current_state.mouse_buttons = pre.current_state.mouse_buttons
           /\ current_state = pre.current_state

\* the released button was pressed and released before, another one is down
C11_Witness ==
    \E b \in MouseButton :
        /\ Pushed(RawRelease(b))
        /\ pre.current_state.mouse_buttons[b] = None
        /\ \E o \in MouseButton : pre.current_state.mouse_buttons[o] # None
        /\ Len(Appended) = 1

\* The first button of the enumeration that the host holds down.
FirstHeld(held) ==
    LET down == {i \in 1 .. Len(ButtonOrder) : held[ButtonOrder[i]] # None}
    IN ButtonOrder[CHOOSE i \in down : \A j \in down : i <= j]

\* C14: the match runs on current_state as it was before the event and the
\* update comes second.  On the release of a down button b the synthesized
\* event carries b's down-location and the modifiers from before the
\* release, while b has no entry once push_event has returned; on a move to
\* q a drag is synthesized exactly when the down-location of the pressed
\* button is beyond the threshold from q, while mouse_position is q once
\* push_event has returned.
C14_InterpretBeforeUpdate ==
    /\ \A b \in MouseButton : \A p, q \in Points :
        Released(b, p, q)
        => /\ Len(Appended) = 2
           /\ IF Appended[2].kind = "MouseClick"
              THEN Appended[2].location = p
              ELSE Appended[2].kind = "MouseDrag" /\ Appended[2].start = p
           /\ Appended[2].modifier = pre.current_state.modifiers
           /\ current_state.mouse_buttons[b] = None
    /\ \A q \in Points :
        Pushed(RawMove(q)) /\ (\E b \in MouseButton : pre.held[b] # None)
        => LET p == pre.held[FirstHeld(pre.held)][1]
           IN /\ Len(Appended) = 2 <=> DistanceAbove(p, q, drag_threshold)
              /\ Len(Appended) = 2 => Appended[2].start = p /\ Appended[2].end = q
              /\ current_state.mouse_position = q

C14_Witness ==
    \E b \in MouseButton : \E p, q \in Points :
        /\ Released(b, p, q)
        /\ p # q
        /\ pre.current_state.modifiers # {}
        /\ Appended[2].modifier = pre.current_state.modifiers
        /\ current_state.mouse_buttons[b] = None

\* C15: a button has an entry in current_state.mouse_buttons exactly when
\* the last raw press or release the host pushed for it was a press; the
\* entry is the pointer position at the time of that press; a release
\* removes the entry.
C15_ButtonMapTracksHost ==
    /\ \A b \in MouseButton : current_state.mouse_buttons[b] = hist.held[b]
    /\ current_state.mouse_position = hist.pointer
    /\ \A b \in MouseButton : Pushed(RawRelease(b)) => current_state.mouse_buttons[b] = None

\* a button pressed away from the origin, then moved, then the other
\* button released
C15_Witness ==
    \E b, o \in MouseButton : \E p \in Points :
        /\ b # o
        /\ Pushed(RawRelease(o))
        /\ pre.held[o] # None
        /\ current_state.mouse_buttons[o] = None
        /\ current_state.mouse_buttons[b] = Some(p)
        /\ p # <<0, 0>>
        /\ p # current_state.mouse_position

\* C16: with two or more buttons down a move to q synthesizes at most one
\* MouseDrag{in_progress: true}, for the first held button f of the
\* enumeration with f's down-location as start; when f's down-location is
\* within the threshold of q nothing is synthesized, whatever the other
\* buttons' down-locations are.
C16_FirstPressedDrivesDrag ==
    \A q \in Points :
        Pushed(RawMove(q)) /\ (\A b \in MouseButton : pre.held[b] # None)
        => LET f == ButtonOrder[1]
               p == pre.held[f][1]
           IN IF DistanceAbove(p, q, drag_threshold)
              THEN Appended = <<RawMove(q),
                                MouseDrag(f, p, q, TRUE, pre.current_state.modifiers)>>
              ELSE Appended = <<RawMove(q)>>

\* the first button is within the threshold, the second one beyond it
C16_Witness ==
    \E q \in Points :
        /\ Pushed(RawMove(q))
        /\ \A b \in MouseButton : pre.held[b] # None
        /\ DistanceAtMost(pre.held[ButtonOrder[1]][1], q, drag_threshold)
        /\ DistanceAbove(pre.held[ButtonOrder[2]][1], q, drag_threshold)
        /\ Appended = <<RawMove(q)>>

\* C17: push_event's self-call goes one level deep at most: every log
\* entry was appended by the host's call or by its direct self-call, and
\* the match yields nothing for a synthesized event.
C17_RecursionDepthOne ==
    /\ \A i \in DOMAIN events : origin[i][2] <= 1
    /\ \A i \in DOMAIN events : IsSynthesized(events[i]) => interpret(GlobalInput, events[i]) = None
    /\ call.op = "push_event" => Len(Appended) \in {1, 2}

C17_Witness ==
    /\ call.op = "push_event"
    /\ Len(Appended) = 2
    /\ Appended[2].kind = "MouseDrag"
    /\ Appended[2].in_progress = FALSE
    /\ origin[Len(events)][2] = 1

\* The GlobalInput in the middle of the last host call: the host's event is
\* applied and logged, the self-call has not started.
BeforeSelfCall ==
    LET keep == Len(events) - Len(Appended)
    IN [GlobalInput EXCEPT
            !.current_state = InputStateUpdate(pre.current_state, call.event),
            !.events = Append(SubSeq(events, 1, keep), call.event),
            !.origin = Append(SubSeq(origin, 1, keep), <<Len(pushed), 0>>)]

\* C18: feeding a synthesized event through push_event leaves current_state
\* (pointer position, button map, modifiers, capture fields) unchanged and
\* appends that one event to the log.
C18_SynthesizedLeavesState ==
    call.op = "push_event" /\ Len(Appended) >= 2
    => LET mid == BeforeSelfCall
           fed == push_event(mid, Appended[2], Len(pushed), 1)
       IN /\ IsSynthesized(Appended[2])
          /\ fed.current_state = mid.current_state
          /\ fed.start_state = mid.start_state
          /\ fed.events = Append(mid.events, Appended[2])
          /\ fed = GlobalInput

C18_Witness ==
    /\ call.op = "push_event"
    /\ Len(Appended) = 2
    /\ Appended[2].kind = "MouseClick"
    /\ current_state = InputStateUpdate(pre.current_state, call.event)
    /\ current_state.widget_capturing_mouse # None
    /\ current_state.modifiers # {}

\* The pointer was moved off the down-location of the released button
\* between its press and its release.
MovedSincePress == pre.motion.near \/ pre.motion.far

\* C12, as claimed: with drag_threshold = 0, a press of a button, then one
\* or more pointer moves, then the release of that button synthesizes a
\* MouseDrag on the release, never a MouseClick.
C12_ZeroThresholdAlwaysDrags ==
    \A b \in MouseButton : \A p, q \in Points :
        drag_threshold = 0 /\ Released(b, p, q) /\ MovedSincePress
        => Len(Appended) = 2 /\ Appended[2].kind = "MouseDrag"

\* C12, amended: with drag_threshold = 0, a press of a button at p, then
\* one or more pointer moves, then the release of that button synthesizes
\* a MouseDrag on the release when the pointer is away from p at the
\* release, and a MouseClick when the moves have brought it back to p.
C12_ZeroThresholdDragsUnlessBack ==
    \A b \in MouseButton : \A p, q \in Points :
        drag_threshold = 0 /\ Released(b, p, q) /\ MovedSincePress
        => Appended = <<RawRelease(b),
                        IF q # p
                        THEN MouseDrag(b, p, q, FALSE, pre.current_state.modifiers)
                        ELSE MouseClick(b, p, pre.current_state.modifiers)>>

C12_Witness ==
    \E b \in MouseButton : \E p, q \in Points :
        /\ drag_threshold = 0
        /\ Released(b, p, q)
        /\ MovedSincePress
        /\ q # p
        /\ Appended[2].kind = "MouseDrag"
        /\ Appended[2].in_progress = FALSE

C19_ReleaseIgnoresPath ==
    \A b \in MouseButton : \A p, q \in Points :
        Released(b, p, q) /\ pre.motion.far
        => Appended = <<RawRelease(b),
                        IF DistanceAtMost(p, q, drag_threshold)
                        THEN MouseClick(b, p, pre.current_state.modifiers)
                        ELSE MouseDrag(b, p, q, FALSE, pre.current_state.modifiers)>>

\* the first button of the enumeration, which drives the in-progress drags
\* whenever it is down, released off its down-location but within the
\* threshold after a move beyond it
C19_Witness ==
    \E p, q \in Points :
        /\ Released(ButtonOrder[1], p, q)
        /\ pre.motion.far
        /\ p # q
        /\ DistanceAtMost(p, q, drag_threshold)
        /\ Appended[2].kind = "MouseClick"

\* C20: for every button b the clicks and finished drags synthesized for b
\* never outnumber the presses of b pushed so far, resets included; each of
\* them is the one event synthesized by a release of b pushed while the
\* last press or release of b was a press, and that release ends the press.
C20_CompletionsMatchPresses ==
    \A b \in MouseButton :
        /\ credit[b] >= 0
        /\ \A k \in DOMAIN Appended :
            IsCompletion(Appended[k], b)
            => /\ k = 2
               /\ Len(Appended) = 2
               /\ Pushed(RawRelease(b))
               /\ pre.held[b] # None
               /\ hist.held[b] = None

\* a press in one cycle, a reset, the release first thing in the next cycle
C20_Witness ==
    \E b \in MouseButton :
        /\ Pushed(RawRelease(b))
        /\ pre.op = "reset"
        /\ Len(pushed) = 1
        /\ Len(Appended) = 2
        /\ IsCompletion(Appended[2], b)
        /\ credit[b] = 0

====
